---- MODULE Spec2Model ----
(***************************************************************************)
(* Model of torsel.Torsel (src/torsel/torsel.py): the worker pool and      *)
(* retry engine (run / thread_manager), the task executor                  *)
(* (execute_function) and the instance lifecycle operations                *)
(* (create_tor_instance, rotate_tor_ip) as they are driven by the workers. *)
(***************************************************************************)
EXTENDS Integers, Sequences, FiniteSets, TLC

\* ------------------------------------------------------------------ bounds
MaxInstances == 2
MaxThreads == 2
MaxActions == 4
\* num_actions * max_threads of a configuration is at most MaxLoad
MaxLoad == 6

\* base ports a configuration may name: the defaults shifted by 0..MaxShift strides
MaxShift == 1
\* ports held by unrelated processes when the program starts: at most MaxStale
MaxStale == 1
\* clean_up calls made directly by the caller: at most MaxResets
MaxResets == 2

\* `for attempt in range(5)`
MaxAttempts == 5

\* `tor_base_port=9050`, `tor_control_base_port=9151`
DefaultSocksBase == 9050
DefaultControlBase == 9151

\* `instance_num * 10`, and the step of clean_up's range()
PortStride == 10

\* `port + 101` in clean_up
ResetControlOffset == 101

Threads == 1..MaxThreads
Actions == 0..(MaxActions - 1)
Instances == 0..(MaxInstances - 1)

\* The callbacks a caller may pass as check_stop_func: None, a callback that
\* answers true as soon as one action has been completed, and a callback that
\* reads a flag some other part of the caller's program raises at any time.
StopModes == {"none", "after_first", "latched"}

VARIABLES
    total_instances,  \* self.total_instances
    max_threads,      \* self.max_threads
    num_actions,      \* run's num_actions
    stopMode,         \* which check_stop_func run was given
    tor_base_port,    \* self.tor_base_port
    tor_control_base_port, \* self.tor_control_base_port
    torPorts,         \* ports on which a tor process accepts connections
    otherPorts,       \* ports on which an unrelated process accepts connections
    data_dir,         \* self.tor_data_dir exists
    torrc,            \* per instance: <<SocksPort, ControlPort>> written to its torrc
    probed,           \* the ports the last clean_up call tested with is_port_open
    resetLog,         \* per clean_up call: the environment before and after, and its error
    stopFlag,         \* the flag a "latched" check_stop_func reads
    runpc,            \* position of run(): "init", "starting", "joining", "returned", "raised"
    started,          \* number of worker threads run() has started so far
    queue,            \* the shared Queue, as a sequence of action numbers
    unfinished_tasks, \* Queue.unfinished_tasks (put increments, task_done decrements)
    procs,            \* per instance: tor processes launched by create_tor_instance
    createLog,        \* per instance: the actions whose worker called create_tor_instance
    undisposed,       \* sessions built by configure_selenium_with_tor and not yet quit
    pc,               \* per thread: position in thread_manager
    exc,              \* per thread: the call whose exception left thread_manager
    action_num,       \* per thread: local action_num
    instance_num,     \* per thread: local instance_num
    attempt,          \* per thread: loop variable of the retry loop
    execCalls,        \* per thread: execute_function calls made for the current action
    rotCalls,         \* per thread: rotate_tor_ip calls made for the current action
    succeeded,        \* per thread: the current action's retry loop ended by break
    dequeued,         \* per action: how many times the queue handed it out to run it
    discarded,        \* per action: how many times the stop-path drain removed it
    done,             \* per action: how many task_done calls followed its removal
    execOn,           \* per action: the instances execute_function was called with
    begunAfterStop    \* per thread: actions it dequeued while the stop check answered true

cfgvars == <<total_instances, max_threads, num_actions, stopMode,
             tor_base_port, tor_control_base_port>>
envvars == <<torPorts, otherPorts, data_dir, torrc, probed, resetLog>>
runvars == <<runpc, started>>
qvars == <<queue, unfinished_tasks>>
instvars == <<procs, createLog>>
localvars == <<action_num, instance_num, attempt, execCalls, rotCalls, succeeded>>
histvars == <<dequeued, discarded, done, execOn, begunAfterStop>>
vars == <<cfgvars, envvars, stopFlag, runvars, qvars, instvars, undisposed, pc, exc, localvars,
          histvars>>

\* ----------------------------------------------------------------- helpers
Min(a, b) == IF a <= b THEN a ELSE b

RECURSIVE Sum(_, _)
Sum(f, S) == IF S = {} THEN 0 ELSE LET x == CHOOSE y \in S : TRUE IN f[x] + Sum(f, S \ {x})

\* range(num_actions) put into the queue in order
RECURSIVE Range(_, _)
Range(lo, hi) == IF lo >= hi THEN <<>> ELSE <<lo>> \o Range(lo + 1, hi)

\* the same without the min: one thread per max_threads, whatever num_actions is
NumThreads_MaxOnly == max_threads

\* the threads run() creates: min(num_actions, self.max_threads)
NumThreads == Min(num_actions, max_threads)

\* thread t has left thread_manager, by return or by an exception
Finished(t) == pc[t] \in {"done_empty", "done_stop", "dead"}

\* `action_num % self.total_instances`
InstanceOf(a) == a % total_instances

\* the same test written `<=`: action T would create instance 0 a second time
NeedsCreate_OffByOne(a) == a <= total_instances

\* `if action_num < self.total_instances`
NeedsCreate(a) == a < total_instances

\* a poll that never reports the stop request
StopRequested_Unpolled == FALSE

\* `check_stop_func and check_stop_func()`
StopRequested ==
    CASE stopMode = "none" -> FALSE
      [] stopMode = "after_first" -> Sum(done, Actions) >= 1
      [] OTHER -> stopFlag

\* ------------------------------------------------------------------- ports
\* `self.tor_base_port + instance_num * 10` (torrc SocksPort, the proxy argument)
SocksPort(i) == tor_base_port + i * PortStride

\* the same without the instance's offset: every instance on one control port
ControlPort_NoOffset(i) == tor_control_base_port

\* `self.tor_control_base_port + instance_num * 10` (torrc ControlPort, rotate_tor_ip)
ControlPort(i) == tor_control_base_port + i * PortStride

\* is_port_open(port): something accepts a connection on the port
IsPortOpen(p) == p \in torPorts \cup otherPorts

\* clean_up: `range(self.tor_base_port, self.tor_base_port + self.total_instances * 10, 10)`
ResetRange == {tor_base_port + k * PortStride : k \in 0..(total_instances - 1)}

\* clean_up tests `port` and `port + 101` for every port of that range
ResetProbes == ResetRange \cup {p + ResetControlOffset : p \in ResetRange}

\* the same without the guard: rmtree is called whether or not the directory exists
RmTreeNeeded_Unguarded == TRUE

\* clean_up: `if os.path.exists(self.tor_data_dir)` guards shutil.rmtree
RmTreeNeeded == data_dir

\* shutil.rmtree raises FileNotFoundError on a directory that does not exist
CleanUpRaises == RmTreeNeeded /\ ~data_dir

\* clean_up(): `killall tor` ends every tor process, `fuser -k` ends whatever
\* holds a tested port that is open, and the data directory is removed.
CleanUp ==
    /\ procs' = [i \in Instances |-> 0]
    /\ torPorts' = {}
    /\ otherPorts' = otherPorts \ ResetProbes
    /\ probed' = ResetProbes
    /\ data_dir' = FALSE
    /\ torrc' = [i \in Instances |-> <<>>]
    /\ resetLog' = Append(resetLog,
          [before |-> [tor |-> torPorts, other |-> otherPorts, dir |-> data_dir],
           after |-> [tor |-> {}, other |-> otherPorts \ ResetProbes, dir |-> FALSE],
           error |-> CleanUpRaises])

\* create_tor_instance either launches tor, or raises at Popen (the directory
\* and the torrc are written by then), or raises at makedirs.
CreateOutcomes == {"launched", "popen_raises", "makedirs_raises"}

\* create_tor_instance(i): makedirs, the torrc with both ports, Popen. A
\* launched tor listens on those of its two ports nothing else holds.
CreateEffects(i, outcome) ==
    /\ data_dir' = (data_dir \/ outcome # "makedirs_raises")
    /\ torrc' = IF outcome = "makedirs_raises" THEN torrc
                ELSE [torrc EXCEPT ![i] = <<SocksPort(i), ControlPort(i)>>]
    /\ procs' = IF outcome = "launched" THEN [procs EXCEPT ![i] = @ + 1] ELSE procs
    /\ torPorts' = IF outcome = "launched"
                     THEN torPorts \cup ({SocksPort(i), ControlPort(i)} \ otherPorts)
                     ELSE torPorts
    /\ UNCHANGED <<otherPorts, probed, resetLog>>

\* --------------------------------------------------------------------- Init
Init ==
    /\ total_instances \in 1..MaxInstances
    /\ max_threads \in 1..MaxThreads
    /\ num_actions \in 0..MaxActions
    /\ num_actions * max_threads <= MaxLoad
    /\ stopMode \in StopModes
    /\ tor_base_port = DefaultSocksBase
    /\ tor_control_base_port = DefaultControlBase
    /\ torPorts = {}
    /\ otherPorts = {}
    /\ data_dir = FALSE
    /\ torrc = [i \in Instances |-> <<>>]
    /\ probed = {}
    /\ resetLog = <<>>
    /\ stopFlag = FALSE
    /\ runpc = "init"
    /\ started = 0
    /\ queue = <<>>
    /\ unfinished_tasks = 0
    /\ procs = [i \in Instances |-> 0]
    /\ createLog = [i \in Instances |-> <<>>]
    /\ undisposed = 0
    /\ pc = [t \in Threads |-> "notstarted"]
    /\ exc = [t \in Threads |-> "none"]
    /\ action_num = [t \in Threads |-> 0]
    /\ instance_num = [t \in Threads |-> 0]
    /\ attempt = [t \in Threads |-> 0]
    /\ execCalls = [t \in Threads |-> 0]
    /\ rotCalls = [t \in Threads |-> 0]
    /\ succeeded = [t \in Threads |-> FALSE]
    /\ dequeued = [a \in Actions |-> 0]
    /\ discarded = [a \in Actions |-> 0]
    /\ done = [a \in Actions |-> 0]
    /\ execOn = [a \in Actions |-> {}]
    /\ begunAfterStop = [t \in Threads |-> 0]

\* ---------------------------------------------------------------------- run
\* run(): clean_up(), then the queue is seeded with 0..num_actions-1. (An
\* exception of clean_up would leave run() before anything is queued.)
RunSeed ==
    /\ runpc = "init"
    /\ CleanUp
    /\ queue' = IF CleanUpRaises THEN <<>> ELSE Range(0, num_actions)
    /\ unfinished_tasks' = IF CleanUpRaises THEN 0 ELSE num_actions
    /\ runpc' = IF CleanUpRaises THEN "raised"
                ELSE IF NumThreads = 0 THEN "joining" ELSE "starting"
    /\ UNCHANGED <<cfgvars, stopFlag, started, createLog, undisposed, pc, exc, localvars,
                   histvars>>

\* run(): one iteration of the loop that creates and starts a thread.
StartThread ==
    /\ runpc = "starting"
    /\ started' = started + 1
    /\ pc' = [pc EXCEPT ![started + 1] = "check"]
    /\ runpc' = IF started + 1 = NumThreads THEN "joining" ELSE "starting"
    /\ UNCHANGED <<cfgvars, envvars, stopFlag, qvars, instvars, undisposed, exc, localvars, histvars>>

\* run(): the join loop returns once every started thread has ended.
RunReturn ==
    /\ runpc = "joining"
    /\ \A t \in 1..NumThreads : Finished(t)
    /\ runpc' = "returned"
    /\ UNCHANGED <<cfgvars, envvars, stopFlag, started, qvars, instvars, undisposed, pc, exc, localvars, histvars>>

\* The caller's program raises the flag a "latched" check_stop_func reads.
RequestStop ==
    /\ stopMode = "latched"
    /\ runpc \in {"starting", "joining"}
    /\ ~stopFlag
    /\ stopFlag' = TRUE
    /\ UNCHANGED <<cfgvars, envvars, runvars, qvars, instvars, undisposed, pc, exc, localvars, histvars>>

\* ----------------------------------------------------------- the shared queue
\* Queue.get / Queue.get_nowait on a non-empty queue: the item handed out
QueueHead(q) == Head(q)

\* Queue.get / Queue.get_nowait on a non-empty queue: what stays queued
QueueRest(q) == Tail(q)

\* ------------------------------------------------------------ thread_manager
\* `while not queue.empty()`: the loop test. A thread that sees a non-empty queue
\* goes on to call queue.get(); the test and the get are two separate calls.
CheckEmpty(t) ==
    /\ pc[t] = "check"
    /\ pc' = [pc EXCEPT ![t] = IF queue = <<>> THEN "done_empty" ELSE "get"]
    /\ UNCHANGED <<exc, cfgvars, envvars, stopFlag, runvars, qvars, instvars, undisposed, localvars, histvars>>

\* `action_num = queue.get()` (blocking: not enabled while the queue is empty),
\* `instance_num = action_num % self.total_instances`, and the test that sends
\* the thread into create_tor_instance or straight to the retry loop.
Get(t) ==
    /\ pc[t] = "get"
    /\ queue # <<>>
    /\ LET a == QueueHead(queue) IN
        /\ queue' = QueueRest(queue)
        /\ action_num' = [action_num EXCEPT ![t] = a]
        /\ instance_num' = [instance_num EXCEPT ![t] = InstanceOf(a)]
        /\ dequeued' = [dequeued EXCEPT ![a] = @ + 1]
        /\ begunAfterStop' = [begunAfterStop EXCEPT ![t] = IF StopRequested THEN @ + 1 ELSE @]
        /\ createLog' = IF NeedsCreate(a)
                          THEN [createLog EXCEPT ![InstanceOf(a)] = Append(@, a)]
                          ELSE createLog
        /\ pc' = [pc EXCEPT ![t] = IF NeedsCreate(a) THEN "create" ELSE "attempt"]
    /\ attempt' = [attempt EXCEPT ![t] = 0]
    /\ execCalls' = [execCalls EXCEPT ![t] = 0]
    /\ rotCalls' = [rotCalls EXCEPT ![t] = 0]
    /\ succeeded' = [succeeded EXCEPT ![t] = FALSE]
    /\ UNCHANGED <<cfgvars, envvars, stopFlag, runvars, unfinished_tasks, procs, undisposed, exc,
                   discarded, done, execOn>>

\* An exception nothing catches leaves thread_manager: the thread ends.
Raise(t, call) ==
    /\ pc' = [pc EXCEPT ![t] = "dead"]
    /\ exc' = [exc EXCEPT ![t] = call]

\* create_tor_instance(instance_num) and the settling sleeps end: either the
\* process was launched, or makedirs/open/Popen raised. The call is outside the
\* try block, so an exception leaves thread_manager and ends the thread.
CreateEnd(t) ==
    /\ pc[t] = "create"
    /\ \E outcome \in CreateOutcomes :
        /\ CreateEffects(instance_num[t], outcome)
        /\ IF outcome = "launched"
             THEN /\ pc' = [pc EXCEPT ![t] = "attempt"]
                  /\ exc' = exc
             ELSE Raise(t, "create_tor_instance")
    /\ UNCHANGED <<cfgvars, stopFlag, runvars, qvars, createLog, undisposed, localvars, histvars>>

\* queue.task_done(): one completion signal for the item this thread removed.
\* (Queue raises ValueError when called more often than items were put.)
TaskDone(t, a, nextpc) ==
    IF unfinished_tasks = 0
      THEN /\ Raise(t, "task_done")
           /\ UNCHANGED <<unfinished_tasks, done>>
      ELSE /\ unfinished_tasks' = unfinished_tasks - 1
           /\ done' = [done EXCEPT ![a] = @ + 1]
           /\ pc' = [pc EXCEPT ![t] = nextpc]
           /\ exc' = exc

\* the same with a handler that only logs and does not call rotate_tor_ip
EnterRotate_LogOnly(t) ==
    /\ rotCalls' = rotCalls
    /\ pc' = [pc EXCEPT ![t] = "rotate"]
    /\ UNCHANGED <<unfinished_tasks, done, exc>>

\* The except handler is entered: `self.rotate_tor_ip(instance_num)` is called.
EnterRotate(t) ==
    /\ rotCalls' = [rotCalls EXCEPT ![t] = @ + 1]
    /\ pc' = [pc EXCEPT ![t] = "rotate"]
    /\ UNCHANGED <<unfinished_tasks, done, exc>>

\* the same behind a per-instance lock: execute_function is not entered while
\* another thread is inside execute_function or rotate_tor_ip for the instance
ExecBegin_PerInstanceLock(t) ==
    /\ pc[t] = "attempt"
    /\ \A u \in Threads \ {t} :
          ~(pc[u] \in {"exec", "rotate"} /\ instance_num[u] = instance_num[t])
    /\ execCalls' = [execCalls EXCEPT ![t] = @ + 1]
    /\ execOn' = [execOn EXCEPT ![action_num[t]] = @ \cup {instance_num[t]}]
    /\ \E built \in BOOLEAN :
        IF built
          THEN /\ undisposed' = undisposed + 1
               /\ pc' = [pc EXCEPT ![t] = "exec"]
               /\ UNCHANGED <<rotCalls, unfinished_tasks, done, exc>>
          ELSE /\ EnterRotate(t)
               /\ UNCHANGED undisposed
    /\ UNCHANGED <<cfgvars, envvars, stopFlag, runvars, queue, instvars, action_num, instance_num,
                   attempt, succeeded, dequeued, discarded, begunAfterStop>>

\* execute_function is called for the current attempt: configure_selenium_with_tor
\* either returns a driver (the user function then runs) or raises.
ExecBegin(t) ==
    /\ pc[t] = "attempt"
    /\ execCalls' = [execCalls EXCEPT ![t] = @ + 1]
    /\ execOn' = [execOn EXCEPT ![action_num[t]] = @ \cup {instance_num[t]}]
    /\ \E built \in BOOLEAN :
        IF built
          THEN /\ undisposed' = undisposed + 1
               /\ pc' = [pc EXCEPT ![t] = "exec"]
               /\ UNCHANGED <<rotCalls, unfinished_tasks, done, exc>>
          ELSE /\ EnterRotate(t)
               /\ UNCHANGED undisposed
    /\ UNCHANGED <<cfgvars, envvars, stopFlag, runvars, queue, instvars, action_num, instance_num,
                   attempt, succeeded, dequeued, discarded, begunAfterStop>>

ExecOutcomes == {"returns", "user_raises", "quit_raises"}

\* `driver.quit()` is reached only when user_function returned.
QuitCalled(outcome) == outcome # "user_raises"

\* execute_function ends: user_function returns and driver.quit() is called
\* (which may itself raise), or user_function raises and the exception leaves
\* execute_function. On a normal return the retry loop breaks and
\* queue.task_done() follows; on an exception the handler calls rotate_tor_ip.
ExecEnd(t) ==
    /\ pc[t] = "exec"
    /\ \E outcome \in ExecOutcomes :
        /\ undisposed' = IF QuitCalled(outcome) THEN undisposed - 1 ELSE undisposed
        /\ IF outcome = "returns"
             THEN /\ succeeded' = [succeeded EXCEPT ![t] = TRUE]
                  /\ TaskDone(t, action_num[t], "stop")
                  /\ UNCHANGED rotCalls
             ELSE /\ EnterRotate(t)
                  /\ UNCHANGED succeeded
    /\ UNCHANGED <<cfgvars, envvars, stopFlag, runvars, queue, instvars, action_num, instance_num,
                   attempt, execCalls, dequeued, discarded, execOn,
                   begunAfterStop>>

\* is_port_open(control_port) inside rotate_tor_ip: nothing answers on a
\* control port no process holds; a process that holds it may or may not be
\* accepting connections yet.
ControlPortMayBeOpen(i) == IsPortOpen(ControlPort(i))

RotateOutcomes(i) ==
    IF ControlPortMayBeOpen(i) THEN {"closed", "rotated", "raises"} ELSE {"closed"}

\* the same with a loop that also consults the stop check between attempts
HasNextAttempt_UnlessStopped(n) == n + 1 < MaxAttempts /\ ~StopRequested

\* `for attempt in range(5)`: another iteration follows this one
HasNextAttempt(n) == n + 1 < MaxAttempts

\* rotate_tor_ip ends. Port closed: logged, returns. Port open: the controller
\* session either sends NEWNYM and returns after the settling sleep, or
\* from_port/authenticate/signal raises; that exception is raised inside the
\* except handler, so it leaves thread_manager and ends the thread. On return
\* the for loop takes its next iteration, or is exhausted and task_done follows.
RotateEnd(t) ==
    /\ pc[t] = "rotate"
    /\ \E outcome \in RotateOutcomes(instance_num[t]) :
        IF outcome = "raises"
          THEN /\ Raise(t, "rotate_tor_ip")
               /\ UNCHANGED <<attempt, unfinished_tasks, done>>
          ELSE IF HasNextAttempt(attempt[t])
            THEN /\ attempt' = [attempt EXCEPT ![t] = @ + 1]
                 /\ pc' = [pc EXCEPT ![t] = "attempt"]
                 /\ UNCHANGED <<unfinished_tasks, done, exc>>
            ELSE /\ TaskDone(t, action_num[t], "stop")
                 /\ UNCHANGED attempt
    /\ UNCHANGED <<cfgvars, envvars, stopFlag, runvars, queue, instvars, undisposed, action_num,
                   instance_num, execCalls, rotCalls, succeeded, dequeued, discarded, begunAfterStop,
                   execOn>>

\* `if check_stop_func and check_stop_func()`: the poll after task_done. The
\* action is over: the loop variable and the per-action call counts start afresh.
StopPoll(t) ==
    /\ pc[t] = "stop"
    /\ pc' = [pc EXCEPT ![t] = IF StopRequested THEN "drain_check" ELSE "check"]
    /\ attempt' = [attempt EXCEPT ![t] = 0]
    /\ execCalls' = [execCalls EXCEPT ![t] = 0]
    /\ rotCalls' = [rotCalls EXCEPT ![t] = 0]
    /\ succeeded' = [succeeded EXCEPT ![t] = FALSE]
    /\ UNCHANGED <<cfgvars, envvars, stopFlag, runvars, qvars, instvars, undisposed, exc, action_num,
                   instance_num, histvars>>

\* the same with a stop path that goes on processing the queue instead of
\* discarding it
DrainCheck_Resume(t) ==
    /\ pc[t] = "drain_check"
    /\ pc' = [pc EXCEPT ![t] = IF queue = <<>> THEN "done_stop" ELSE "get"]
    /\ UNCHANGED <<exc, cfgvars, envvars, stopFlag, runvars, qvars, instvars, undisposed, localvars, histvars>>

\* stop path, `while not queue.empty()`: the drain loop's test, then `break`.
DrainCheck(t) ==
    /\ pc[t] = "drain_check"
    /\ pc' = [pc EXCEPT ![t] = IF queue = <<>> THEN "done_stop" ELSE "drain_get"]
    /\ UNCHANGED <<exc, cfgvars, envvars, stopFlag, runvars, qvars, instvars, undisposed, localvars, histvars>>

\* stop path, `queue.get_nowait(); queue.task_done()`: get_nowait raises Empty
\* when another thread emptied the queue after this thread's test; nothing
\* catches it, so the thread ends.
DrainGet(t) ==
    /\ pc[t] = "drain_get"
    /\ IF queue = <<>>
         THEN /\ Raise(t, "get_nowait")
              /\ UNCHANGED <<qvars, discarded, done>>
         ELSE /\ queue' = QueueRest(queue)
              /\ discarded' = [discarded EXCEPT ![QueueHead(queue)] = @ + 1]
              /\ TaskDone(t, QueueHead(queue), "drain_check")
    /\ UNCHANGED <<cfgvars, envvars, stopFlag, runvars, instvars, undisposed, localvars,
                   dequeued, execOn, begunAfterStop>>

Worker(t) ==
    \/ CheckEmpty(t)
    \/ Get(t)
    \/ CreateEnd(t)
    \/ ExecBegin(t)
    \/ ExecEnd(t)
    \/ RotateEnd(t)
    \/ StopPoll(t)
    \/ DrainCheck(t)
    \/ DrainGet(t)

Next ==
    \/ RunSeed
    \/ StartThread
    \/ RunReturn
    \/ RequestStop
    \/ \E t \in Threads : Worker(t)

Spec == Init /\ [][Next]_vars

\* ------------------------------------------------------------------ claims
\* the threads run() started have all ended, and run() has returned
RunEnded == runpc = "returned"

\* thread t has marked its current action done and has not polled the stop check yet
MarkedDone(t) == pc[t] = "stop"

InExecute == {t \in Threads : pc[t] = "exec"}

\* C1: Retry bound. An action whose every attempt raised has, once it is
\* marked done, had execute_function called exactly 5 times and rotate_tor_ip
\* exactly 4 times (no rotation after the fifth failed attempt).
C1_RetryBound ==
    \A t \in Threads :
        (MarkedDone(t) /\ ~succeeded[t]) => (execCalls[t] = 5 /\ rotCalls[t] = 4)

\* C2: Session release. Every session execute_function built has been quit by
\* the time execute_function hands control back: the sessions not yet quit are
\* never more than the threads inside execute_function, and none is left once
\* the run has ended.
C2_SessionsReleased ==
    /\ undisposed <= Cardinality(InExecute)
    /\ RunEnded => undisposed = 0

\* C3: Run termination. As long as no call has raised out of a thread, either
\* run() has returned or some thread or run() itself can take a step: no thread
\* stays blocked on the queue once other threads have emptied it.
C3_RunTerminates ==
    (\A t \in Threads : pc[t] # "dead") => (RunEnded \/ ENABLED Next)

\* C4: Exactly-once dequeue. The queue never hands out the same action twice
\* (to run it or to discard it), and a run with no stop condition ends with
\* exactly num_actions mark-done events.
C4_ExactlyOnceDequeue ==
    /\ \A a \in Actions : dequeued[a] + discarded[a] <= 1
    /\ (stopMode = "none" /\ RunEnded) => Sum(done, Actions) = num_actions

\* C5: Assignment and single creation. Action a is executed only against
\* instance a mod T; create_tor_instance(i) is called at most once, and only by
\* the thread that dequeued action i; no instance >= min(T, N) is created; and
\* a run with no stop condition ends with every instance < min(T, N) created
\* exactly once.
C5_AssignmentAndSingleCreation ==
    /\ \A a \in Actions : execOn[a] \subseteq {a % total_instances}
    /\ \A i \in Instances :
        /\ Len(createLog[i]) <= 1
        /\ \A k \in 1..Len(createLog[i]) : createLog[i][k] = i
        /\ i >= Min(total_instances, num_actions) => createLog[i] = <<>>
    /\ (stopMode = "none" /\ RunEnded) =>
          \A i \in Instances :
              i < Min(total_instances, num_actions) => createLog[i] = <<i>>

\* some action has been marked done: from here on an "after_first" stop check
\* answers true
FirstCompleted == Sum(done, Actions) >= 1

Executed == {a \in Actions : execOn[a] # {}}

\* every item the stop-path drain removed was marked done and never executed,
\* and a run that ends after the first completion leaves the queue empty with
\* every item that was not handed out for execution discarded and marked done
DrainedCleanly ==
    /\ \A a \in Actions : discarded[a] >= 1 => (execOn[a] = {} /\ done[a] = 1)
    /\ (RunEnded /\ FirstCompleted) =>
          /\ queue = <<>>
          /\ \A a \in 0..(num_actions - 1) :
                dequeued[a] = 0 => (discarded[a] = 1 /\ done[a] = 1)

\* once the first action has completed, no execute_function call is made for an
\* action that had not been executed before
NoNewExecution == FirstCompleted => execOn' = execOn

\* C6 as stated: Stop-condition drain, for any number of workers. With a stop
\* check that answers true from the first completion on, no further action is
\* executed and the run ends with the queue empty, the remaining items marked
\* done without being executed.
C6_StopDrainAnyWorkers ==
    /\ [](stopMode = "after_first" => DrainedCleanly)
    /\ [][stopMode = "after_first" => NoNewExecution]_vars

\* C6 as amended: Stop-condition drain. With a stop check that answers true
\* from the first completion on, each worker executes at most the one action it
\* dequeued before its first poll, so at most min(num_actions, max_threads)
\* actions are ever executed and, with max_threads = 1, none is executed after
\* the first completion; a run that ends leaves the queue empty, the remaining
\* items marked done without being executed.
C6_StopDrainPerWorker ==
    /\ [](stopMode = "after_first" =>
            (DrainedCleanly /\ Cardinality(Executed) <= NumThreads))
    /\ [][(stopMode = "after_first" /\ max_threads = 1) => NoNewExecution]_vars

\* C6 witness: a single worker completed action 0, polled the stop check and
\* discarded actions 1 and 2; run() has returned.
C6_Witness ==
    /\ stopMode = "after_first" /\ max_threads = 1 /\ num_actions = 3
    /\ RunEnded
    /\ execOn[0] = {0} /\ done[0] = 1
    /\ discarded[1] = 1 /\ discarded[2] = 1

\* C7: Control-channel failure is never escalated. No exception of
\* rotate_tor_ip (closed port, or a failing connection/authentication/signal
\* on an open port) leaves thread_manager: the thread goes on with the
\* action's remaining attempts and marks it done.
C7_RotationFailureNotEscalated ==
    \A t \in Threads : exc[t] # "rotate_tor_ip"

\* C8: No error ends a worker. A thread leaves thread_manager only because it
\* saw the queue empty or because the stop check answered true.
C8_NoErrorEndsWorker ==
    \A t \in Threads : Finished(t) => pc[t] \in {"done_empty", "done_stop"}

\* C9: Single-worker ordering. With max_threads = 1 and no stop condition the
\* actions are handed out in ascending order, each one marked done before the
\* next is dequeued; an instance's create_tor_instance has completed before
\* the first execute_function against it; no action >= T creates anything; and
\* a worker that leaves on the empty queue has processed all of 0..N-1.
C9_SingleWorkerOrdering ==
    (max_threads = 1 /\ stopMode = "none") =>
        /\ \A a, b \in Actions :
              (a < b /\ dequeued[b] >= 1) => (dequeued[a] = 1 /\ done[a] = 1)
        /\ runpc # "init" => queue = Range(Sum(dequeued, Actions), num_actions)
        /\ \A a \in Actions : \A i \in execOn[a] :
              /\ i = a % total_instances
              /\ procs[i] = 1
              /\ createLog[i] = <<i>>
        /\ \A i \in Instances : createLog[i] \in {<<>>, <<i>>}
        /\ \A a \in Actions : discarded[a] = 0
        /\ \A t \in Threads : pc[t] = "done_empty" =>
              \A a \in 0..(num_actions - 1) :
                  done[a] = 1 /\ execOn[a] = {a % total_instances}

\* C9 witness: T = 2, one worker, 4 actions, all marked done: instances 0 and
\* 1 each created once, action 2 executed on instance 0 and action 3 on 1.
C9_Witness ==
    /\ max_threads = 1 /\ stopMode = "none"
    /\ total_instances = 2 /\ num_actions = 4
    /\ RunEnded
    /\ \A a \in 0..3 : done[a] = 1
    /\ createLog[0] = <<0>> /\ createLog[1] = <<1>>
    /\ execOn[2] = {0} /\ execOn[3] = {1}

\* C10: Completion accounting. Mark-done events never exceed removals from
\* the queue, no item is marked done twice, and once the run has ended every
\* removed item (executed or discarded) has been marked done exactly once.
C10_CompletionAccounting ==
    /\ Sum(done, Actions) <= Sum(dequeued, Actions) + Sum(discarded, Actions)
    /\ \A a \in Actions : done[a] <= dequeued[a] + discarded[a]
    /\ RunEnded => \A a \in Actions : done[a] = dequeued[a] + discarded[a]

\* ------------------------------------------- clean_up and the instances' ports
\* The base ports a caller may configure: the defaults, shifted by whole strides,
\* and control bases at distance 0, one stride, or 101 from a SOCKS base.
SocksBases == {DefaultSocksBase + k * PortStride : k \in 0..MaxShift}
ControlBases ==
    {DefaultControlBase} \cup {b + d : b \in SocksBases, d \in {0, PortStride, ResetControlOffset}}

\* the ports of the configured instances, as create_tor_instance computes them
InstancePorts == {SocksPort(i) : i \in 0..(total_instances - 1)}
                    \cup {ControlPort(i) : i \in 0..(total_instances - 1)}

\* A Torsel object with any of the base ports, in an environment where a
\* previous run's tor processes may still hold the instances' ports, unrelated
\* processes may hold some of the ports, and the data directory may exist.
ResetInit ==
    /\ total_instances \in 1..MaxInstances
    /\ max_threads = 1
    /\ num_actions = 0
    /\ stopMode = "none"
    /\ tor_base_port \in SocksBases
    /\ tor_control_base_port \in ControlBases
    /\ torPorts \in {{}, InstancePorts}
    /\ otherPorts \in {S \in SUBSET (InstancePorts \cup ResetProbes) : Cardinality(S) <= MaxStale}
    /\ torPorts \cap otherPorts = {}
    /\ data_dir \in BOOLEAN
    /\ torrc = [i \in Instances |-> <<>>]
    /\ probed = {}
    /\ resetLog = <<>>
    /\ stopFlag = FALSE
    /\ runpc = "init"
    /\ started = 0
    /\ queue = <<>>
    /\ unfinished_tasks = 0
    /\ procs = [i \in Instances |-> 0]
    /\ createLog = [i \in Instances |-> <<>>]
    /\ undisposed = 0
    /\ pc = [t \in Threads |-> "notstarted"]
    /\ exc = [t \in Threads |-> "none"]
    /\ action_num = [t \in Threads |-> 0]
    /\ instance_num = [t \in Threads |-> 0]
    /\ attempt = [t \in Threads |-> 0]
    /\ execCalls = [t \in Threads |-> 0]
    /\ rotCalls = [t \in Threads |-> 0]
    /\ succeeded = [t \in Threads |-> FALSE]
    /\ dequeued = [a \in Actions |-> 0]
    /\ discarded = [a \in Actions |-> 0]
    /\ done = [a \in Actions |-> 0]
    /\ execOn = [a \in Actions |-> {}]
    /\ begunAfterStop = [t \in Threads |-> 0]

\* the caller calls clean_up() directly
CleanUpCall ==
    /\ Len(resetLog) < MaxResets
    /\ CleanUp
    /\ UNCHANGED <<cfgvars, stopFlag, runvars, qvars, createLog, undisposed, pc, exc, localvars,
                   histvars>>

\* the caller calls create_tor_instance(i) directly, once clean_up has run
CreateCall(i) ==
    /\ i < total_instances
    /\ resetLog # <<>>
    /\ torrc[i] = <<>>
    /\ \E outcome \in CreateOutcomes : CreateEffects(i, outcome)
    /\ UNCHANGED <<cfgvars, stopFlag, runvars, qvars, createLog, undisposed, pc, exc, localvars,
                   histvars>>

ResetNext ==
    \/ CleanUpCall
    \/ \E i \in Instances : CreateCall(i)

ResetSpec == ResetInit /\ [][ResetNext]_vars

\* the ports written into the torrc files so far, one entry per instance and kind
WrittenPorts == {<<i, k>> \in Instances \X {1, 2} : torrc[i] # <<>>}

\* C11 as stated: Port uniqueness for every configuration. No SOCKS or control
\* port written for an instance equals another port of the same or another
\* instance.
C11_PortsUniqueAnyConfig ==
    \A x, y \in WrittenPorts : x # y => torrc[x[1]][x[2]] # torrc[y[1]][y[2]]

\* the control base lies a whole number k of strides from the SOCKS base, |k| < T
BasesOverlap ==
    \E k \in (1 - total_instances)..(total_instances - 1) :
        tor_control_base_port = tor_base_port + k * PortStride

\* C11 as amended: Port uniqueness. Unless the control base lies k strides from
\* the SOCKS base for some |k| < T, the written ports are pairwise distinct; the
\* default bases 9050 and 9151 never overlap.
C11_PortsUniqueUnlessBasesOverlap ==
    /\ ~BasesOverlap => C11_PortsUniqueAnyConfig
    /\ (tor_base_port = DefaultSocksBase /\ tor_control_base_port = DefaultControlBase)
          => ~BasesOverlap

\* C11 witness: both instances of a default configuration have their torrc written.
C11_Witness ==
    /\ tor_base_port = DefaultSocksBase /\ tor_control_base_port = DefaultControlBase
    /\ total_instances = 2
    /\ torrc[0] = <<DefaultSocksBase, DefaultControlBase>>
    /\ torrc[1] = <<DefaultSocksBase + PortStride, DefaultControlBase + PortStride>>

\* the n-th and (n+1)-th clean_up calls ran in a row: nothing changed between them
InARow(n) == resetLog[n + 1].before = resetLog[n].after

\* nothing was running before the n-th clean_up call: no tor process held a
\* port and no port of a configured instance was open
NothingRunning(n) ==
    /\ resetLog[n].before.tor = {}
    /\ resetLog[n].before.other \cap InstancePorts = {}

\* C12: Environment Reset idempotence. Starting with no tor process running and
\* no instance port open, two clean_up calls in a row raise no error, the data
\* directory does not exist after either, and the state after the second call
\* equals the state after the first.
C12_ResetIdempotent ==
    \A n \in 1..(Len(resetLog) - 1) :
        (NothingRunning(n) /\ InARow(n))
            => /\ ~resetLog[n].error /\ ~resetLog[n + 1].error
               /\ ~resetLog[n].after.dir /\ ~resetLog[n + 1].after.dir
               /\ resetLog[n + 1].after = resetLog[n].after

\* C12 witness: two calls in a row with nothing running, the first of which
\* found a stale data directory and the second of which found none.
C12_Witness ==
    /\ Len(resetLog) = 2
    /\ NothingRunning(1) /\ InARow(1)
    /\ resetLog[1].before.dir /\ ~resetLog[2].before.dir
    /\ ~data_dir

\* C13: Reset covers the instances' ports. Once clean_up has run, the ports it
\* probed are exactly the SOCKS and control ports create_tor_instance writes
\* for the configured instances, and none of those ports is held by another
\* process.
C13_ResetCoversInstancePorts ==
    resetLog # <<>> =>
        /\ probed = InstancePorts
        /\ otherPorts \cap InstancePorts = {}

\* ---------------------------------------------------- workers and instances
\* the threads inside execute_function or rotate_tor_ip for instance i
Touching(i) == {t \in Threads : pc[t] \in {"exec", "rotate"} /\ instance_num[t] = i}

\* create_tor_instance(i) and its settling sleep have completed
Created(i) == procs[i] >= 1

\* C14: Instance is created before it is touched. For any number of threads,
\* no thread is inside execute_function or rotate_tor_ip for instance i unless
\* create_tor_instance(i) has completed.
C14_CreatedBeforeTouched ==
    \A i \in Instances : Touching(i) # {} => Created(i)

\* nothing more can happen: run() has returned, or no thread and no step of
\* run() is able to move
RunOver == RunEnded \/ ~ENABLED Next

\* action a was dequeued for execution and marked done
Settled(a) == dequeued[a] = 1 /\ done[a] = 1

\* C15: Every action is eventually settled. In a run with no stop condition,
\* for any number of threads and any pattern of failures, by the time nothing
\* more can happen every action 0..num_actions-1 has been dequeued and marked
\* done: no failed or abandoned action keeps later actions from being processed.
C15_EveryActionSettled ==
    (stopMode = "none" /\ RunOver) => \A a \in 0..(num_actions - 1) : Settled(a)

\* --------------------------------------------------------- the retry loop
\* C16: Success ends the retry loop. While an action is being processed the
\* rotate_tor_ip calls follow the failed execute_function calls one for one
\* (each after a failed attempt and before the next); an action whose execute
\* first succeeds on attempt k has had exactly k execute_function and k-1
\* rotate_tor_ip calls with 1 <= k <= 5, and after the success the thread does
\* nothing but mark it done and poll the stop check.
C16_SuccessEndsRetryLoop ==
    \A t \in Threads :
        /\ pc[t] = "attempt" => (execCalls[t] = attempt[t] /\ rotCalls[t] = attempt[t])
        /\ pc[t] = "exec" => (execCalls[t] = attempt[t] + 1 /\ rotCalls[t] = attempt[t])
        /\ pc[t] = "rotate" => (execCalls[t] = attempt[t] + 1 /\ rotCalls[t] = attempt[t] + 1)
        /\ succeeded[t] =>
              /\ pc[t] = "stop"
              /\ execCalls[t] \in 1..MaxAttempts
              /\ execCalls[t] = attempt[t] + 1
              /\ rotCalls[t] = execCalls[t] - 1

\* C16 witness: an action succeeded on its third attempt, after two failed
\* attempts and two rotations, and has been marked done.
C16_Witness ==
    \E t \in Threads :
        /\ succeeded[t] /\ MarkedDone(t)
        /\ execCalls[t] = 3 /\ rotCalls[t] = 2
        /\ done[action_num[t]] = 1

\* C17: Same-instance race is reachable. Nothing excludes two threads from one
\* instance: a thread about to call execute_function is able to do so whatever
\* the other threads are doing, also while another thread is inside
\* execute_function or rotate_tor_ip for the same instance (C17_Witness is such
\* a state).
C17_NoPerInstanceExclusion ==
    \A t \in Threads : pc[t] = "attempt" => ENABLED ExecBegin(t)

\* C17 witness: with 2 threads and more actions than instances, one thread is
\* inside rotate_tor_ip(i) while another is inside execute_function against
\* the same instance i.
C17_Witness ==
    /\ max_threads >= 2 /\ num_actions > total_instances
    /\ \E t, u \in Threads :
        /\ t # u
        /\ instance_num[t] = instance_num[u]
        /\ action_num[t] # action_num[u]
        /\ pc[t] = "rotate" /\ pc[u] = "exec"

\* ------------------------------------------------------------ the stop check
\* the pc values of a thread inside the retry loop of its current action
InRetryLoop == {"attempt", "exec", "rotate"}

\* thread t takes the step that calls check_stop_func
Polls(t) == pc[t] = "stop" /\ pc'[t] # "stop"

\* C18: Stop is polled, not pushed. A thread calls check_stop_func only after
\* its action's whole retry loop (a success, or all 5 attempts) and its
\* task_done, once, and that poll's answer alone decides between the drain and
\* the next action; the retry loop is left for the mark-done or by an escaping
\* exception and never for the stop path, whatever the stop check would say;
\* and a thread starts its next action, or the drain, only through a poll.
C18_StopPolledOncePerAction ==
    [][\A t \in Threads :
          /\ Polls(t) =>
                /\ done[action_num[t]] = 1
                /\ succeeded[t] \/ execCalls[t] = MaxAttempts
                /\ pc'[t] = IF StopRequested THEN "drain_check" ELSE "check"
          /\ pc[t] \in InRetryLoop => pc'[t] \in InRetryLoop \cup {"stop", "dead"}
          /\ (pc'[t] = "stop" /\ pc[t] # "stop") => pc[t] \in {"exec", "rotate"}
          /\ (pc'[t] = "check" /\ pc[t] # "check") => pc[t] \in {"notstarted", "stop"}
          /\ (pc'[t] = "drain_check" /\ pc[t] # "drain_check") => pc[t] \in {"stop", "drain_get"}
          /\ (pc'[t] = "get" /\ pc[t] # "get") => pc[t] = "check"
      ]_vars

\* C18 witness: the stop flag is up and one thread has already polled it and
\* left, while another thread has gone through all 5 failed attempts of its
\* action, marked it done, and is about to poll.
C18_Witness ==
    /\ stopMode = "latched" /\ stopFlag
    /\ \E t, u \in Threads :
        /\ t # u
        /\ MarkedDone(t) /\ ~succeeded[t] /\ execCalls[t] = MaxAttempts
        /\ pc[u] = "done_stop"

\* ------------------------------------------------------------ the worker pool
\* the actions handed out for execution and not marked done yet
InProgress == {a \in Actions : dequeued[a] >= 1 /\ done[a] = 0}

\* the threads that were started and have not ended
Running == {t \in Threads : pc[t] \notin {"notstarted", "done_empty", "done_stop", "dead"}}

\* C19: Bounded worker pool. run() starts exactly min(num_actions, max_threads)
\* threads, so never more than that many actions are in progress; with
\* num_actions = 0 no thread is started, no instance is created, the user
\* function is never invoked and run() goes straight to its return; and run()
\* has not returned while a thread is still running.
C19_BoundedWorkerPool ==
    /\ started <= NumThreads
    /\ runpc \in {"joining", "returned"} => started = NumThreads
    /\ \A t \in Threads : pc[t] # "notstarted" <=> t <= started
    /\ Cardinality(InProgress) <= NumThreads
    /\ Cardinality(Running) <= NumThreads
    /\ num_actions = 0 =>
          /\ \A t \in Threads : pc[t] = "notstarted"
          /\ \A i \in Instances : createLog[i] = <<>> /\ procs[i] = 0
          /\ \A a \in Actions : execOn[a] = {}
          /\ runpc \in {"init", "joining", "returned"}
          /\ runpc = "joining" => ENABLED RunReturn
    /\ RunEnded => Running = {}

\* C19 witness: 3 actions and max_threads = 2: both threads were started and
\* are running with an action each in progress, the third action still queued.
C19_Witness ==
    /\ num_actions = 3 /\ max_threads = 2
    /\ started = 2 /\ runpc = "joining"
    /\ Cardinality(Running) = 2
    /\ InProgress = {0, 1}
    /\ queue = <<2>>

\* ------------------------------------------------- work after a stop request
\* the stop check answers true from some point on and for ever after
StopStays == stopMode \in {"after_first", "latched"}

\* C20: Bound on work after a stop request. With a stop check that answers
\* true from some point on, each thread dequeues at most one action for
\* execution after that point, so at most as many actions as there are threads
\* begin after the stop request; and an item removed by the stop-path drain is
\* never handed out for execution nor executed by any thread.
C20_BoundedWorkAfterStop ==
    StopStays =>
        /\ \A t \in Threads : begunAfterStop[t] <= 1
        /\ Sum(begunAfterStop, Threads) <= NumThreads
        /\ \A a \in Actions : discarded[a] >= 1 => (dequeued[a] = 0 /\ execOn[a] = {})

\* C20 witness: the stop flag went up before either thread had dequeued; each
\* of the 2 threads then began one action, and action 2 was discarded by the
\* drain without being executed.
C20_Witness ==
    /\ stopMode = "latched" /\ stopFlag
    /\ num_actions = 3 /\ max_threads = 2
    /\ \A t \in Threads : begunAfterStop[t] = 1
    /\ execOn[0] # {} /\ execOn[1] # {}
    /\ discarded[2] = 1 /\ execOn[2] = {}
    /\ RunEnded

====
